---- MODULE Spec2Model ----
(***************************************************************************)
(* Pharmacy Stock Request Dashboard (tools/dashboard.py).                  *)
(*                                                                         *)
(* The script is modelled as one run of the Streamlit page: the file       *)
(* guard, load_data, the sidebar widgets, the filters, the empty-result    *)
(* guard and the rendering of the ranked tables and of the daily trend.    *)
(* A Streamlit session reruns the script on every widget change; the       *)
(* session specification adds that rerun, with load_data's cache.          *)
(*                                                                         *)
(* Text is a sequence of one-character strings, so that the regular        *)
(* expressions, strip() and the ordering of group keys act on characters.  *)
(* Dates are day ordinals (days since 1970-01-01) of the proleptic         *)
(* Gregorian calendar.  Amounts are integers.  The KPI row, the treemap,    *)
(* the pie and the styling of the charts are left to plotly and streamlit. *)
(***************************************************************************)
EXTENDS Integers, Sequences, FiniteSets, TLC

VARIABLES
    pc,                     \* position of the run in the script
    path_exists,            \* DATA_PATH.exists()
    raw,                    \* rows of the spreadsheet at DATA_PATH
    cache,                  \* st.cache_data entry of load_data
    reads,                  \* number of pd.read_excel calls so far
    df,                     \* the normalized table
    time_mode,              \* the "Time Frame" radio
    week_labels,            \* ordered dict label -> (start, end)
    selected_index,         \* index of the chosen week / month option
    window,                 \* the time window the selection stands for
    time_mask,              \* boolean series over df
    selected_destinations,  \* ward multiselect
    selected_schedules,     \* drug schedule multiselect
    top_n,                  \* "Top N results" slider
    filtered_df,            \* the filtered subset
    views,                  \* what the sections have rendered
    daily_trend,            \* section 5
    prev,                   \* the previous run of the session
    alert,                  \* st.error / st.warning shown
    name_raw,               \* item-name cleaning: the raw name
    name_once,              \* ... cleaned once
    name_twice,             \* ... cleaned twice
    name_pc

runVars == <<pc, path_exists, raw, cache, reads, df, time_mode, week_labels,
             selected_index, window, time_mask, selected_destinations,
             selected_schedules, top_n, filtered_df, views, daily_trend, prev,
             alert>>
nameVars == <<name_raw, name_once, name_twice, name_pc>>
vars == <<runVars, nameVars>>

(***************************************************************************)
(* Bounds of the model.                                                    *)
(***************************************************************************)
MaxRows == 2          \* rows of a table drawn freely from the row pool
MaxSelected == 2      \* wards chosen in the multiselect
MaxTopN == 10         \* largest slider position explored
MaxPieces == 4        \* pieces an item name is assembled from
MaxRuns == 2          \* runs of the script in one session

Min(a, b) == IF a <= b THEN a ELSE b
Max(a, b) == IF a >= b THEN a ELSE b

(***************************************************************************)
(* Characters.                                                             *)
(***************************************************************************)
\* The characters of the model in code-point order (str comparison).
Alphabet == <<"\t", " ", "(", ")", "-", "1", "2", "7",
              "A", "B", "C", "D", "E", "F", "G", "I", "N", "R", "T", "U",
              "[", "]", "a", "b", "c", "n", "u", "x", "{", "}">>
Ord(c) == CHOOSE i \in 1..Len(Alphabet) : Alphabet[i] = c

IsSpace(c) == c \in {" ", "\t"}                       \* \s , str.isspace
IsOpen(c) == c \in {"{", "(", "["}                    \* [\{\(\[]
IsClose(c) == c \in {"}", ")", "]"}                   \* [\}\)\]]
IsCode(c) == c \in {"A", "B", "C", "D", "E", "F", "G", "I", "N", "R", "T",
                    "U", "1", "2", "7"}               \* [A-Z0-9]
IsDigit(c) == c \in {"1", "2", "7"}
DigitVal(c) == IF c = "1" THEN 1 ELSE IF c = "2" THEN 2 ELSE 7

MinCode == 4
MaxCode == 6

\* s < t for str
RECURSIVE LexLess(_, _)
LexLess(s, t) ==
    IF t = <<>> THEN FALSE
    ELSE IF s = <<>> THEN TRUE
    ELSE IF s[1] # t[1] THEN Ord(s[1]) < Ord(t[1])
    ELSE LexLess(Tail(s), Tail(t))

\* number of leading characters of s from position i on that satisfy P
InClass(c, cls) ==
    CASE cls = "space" -> IsSpace(c)
      [] cls = "code" -> IsCode(c)
      [] cls = "blank" -> c = " "

Run(s, i, cls) ==
    CHOOSE k \in 0..Max(0, Len(s) - i + 1) :
        /\ \A j \in i..(i + k - 1) : InClass(s[j], cls)
        /\ i + k <= Len(s) => ~InClass(s[i + k], cls)

\* _SUFFIX_RE matched at position i: \s*[\{\(\[]\s*[A-Z0-9]{4,6}\s*[\}\)\]]\s*$
SuffixMatchesAt(s, i) ==
    LET a == i + Run(s, i, "space")          \* the opening bracket
        b == a + 1 + Run(s, a + 1, "space")  \* first code character
        k == Run(s, b, "code")               \* a code character is neither
                                             \* a space nor a bracket, so the
                                             \* code is the whole run
        c == b + k + Run(s, b + k, "space")  \* the closing bracket
        e == c + 1 + Run(s, c + 1, "space")
    IN  /\ a <= Len(s) /\ IsOpen(s[a])
        /\ k >= MinCode /\ k <= MaxCode
        /\ c <= Len(s) /\ IsClose(s[c])
        /\ e = Len(s) + 1

\* _SUFFIX_RE.sub("", s): the leftmost match runs to the end of the string
SuffixSub(s) ==
    IF \E i \in 1..Len(s) : SuffixMatchesAt(s, i)
    THEN LET i == CHOOSE i \in 1..Len(s) :
                    /\ SuffixMatchesAt(s, i)
                    /\ \A j \in 1..(i - 1) : ~SuffixMatchesAt(s, j)
         IN  SubSeq(s, 1, i - 1)
    ELSE s

\* str.strip()
Strip(s) ==
    LET lead == Run(s, 1, "space")
        rest == SubSeq(s, lead + 1, Len(s))
        last == IF \E i \in 1..Len(rest) : ~IsSpace(rest[i])
                THEN CHOOSE i \in 1..Len(rest) :
                        /\ ~IsSpace(rest[i])
                        /\ \A j \in (i + 1)..Len(rest) : IsSpace(rest[j])
                ELSE 0
    IN  SubSeq(rest, 1, last)

\* a variant that replaces each pair of spaces, not each run
RECURSIVE CollapsePairs(_)
CollapsePairs(s) ==
    IF Len(s) >= 2 /\ s[1] = " " /\ s[2] = " "
    THEN <<" ">> \o CollapsePairs(SubSeq(s, 3, Len(s)))
    ELSE IF s = <<>> THEN <<>>
    ELSE <<s[1]>> \o CollapsePairs(Tail(s))

\* re.sub(r"  +", " ", s)
RECURSIVE CollapseSpaces(_)
CollapseSpaces(s) ==
    IF s = <<>> THEN <<>>
    ELSE LET k == Run(s, 1, "blank")
         IN  IF k >= 2 THEN <<" ">> \o CollapseSpaces(SubSeq(s, k + 1, Len(s)))
             ELSE <<s[1]>> \o CollapseSpaces(Tail(s))

_clean_item_name(s) == CollapseSpaces(Strip(SuffixSub(s)))

(***************************************************************************)
(* Calendar: datetime.date, pandas Period("W") and Period("M").            *)
(***************************************************************************)
\* day ordinal of a civil date
DaysFromCivil(y, m, d) ==
    LET yy == IF m <= 2 THEN y - 1 ELSE y
        era == yy \div 400
        yoe == yy - era * 400
        mp == IF m > 2 THEN m - 3 ELSE m + 9
        doy == (153 * mp + 2) \div 5 + d - 1
        doe == yoe * 365 + yoe \div 4 - yoe \div 100 + doy
    IN  era * 146097 + doe - 719468

\* civil date <<year, month, day>> of a day ordinal
CivilFromDays(z) ==
    LET zz == z + 719468
        era == zz \div 146097
        doe == zz - era * 146097
        yoe == (doe - doe \div 1460 + doe \div 36524 - doe \div 146096) \div 365
        doy == doe - (365 * yoe + yoe \div 4 - yoe \div 100)
        mp == (5 * doy + 2) \div 153
        d == doy - (153 * mp + 2) \div 5 + 1
        m == IF mp < 10 THEN mp + 3 ELSE mp - 9
        y == yoe + era * 400 + (IF m <= 2 THEN 1 ELSE 0)
    IN  <<y, m, d>>

\* date.weekday(): Monday is 0 (1970-01-01 was a Thursday)
Weekday(z) == (z + 3) % 7

\* dt.to_period("W"): the week Monday..Sunday, keyed by its Monday
WeekOf(z) == z - Weekday(z)
WeekStart(w) == w           \* p.start_time.date()
WeekEnd(w) == w + 6         \* p.end_time.date()

\* isocalendar()[1]: the week of the year that holds the week's Thursday
IsoWeek(z) ==
    LET thu == WeekOf(z) + 3
        y == CivilFromDays(thu)[1]
    IN  (thu - DaysFromCivil(y, 1, 1)) \div 7 + 1

\* dt.to_period("M"), keyed by months since year 0
MonthOf(z) == LET c == CivilFromDays(z) IN c[1] * 12 + (c[2] - 1)

\* strftime('%b %d'): month and day, no year
MonthDay(z) == LET c == CivilFromDays(z) IN <<c[2], c[3]>>

\* f"Week {iso_week}  ({start:%b %d} - {end:%b %d})"
WeekLabel(w) == <<IsoWeek(WeekStart(w)), MonthDay(WeekStart(w)), MonthDay(WeekEnd(w))>>

\* strftime("%B %Y") of the month's first day
MonthLabel(mk) == <<(mk % 12) + 1, mk \div 12>>

(***************************************************************************)
(* Cells of the spreadsheet.                                               *)
(***************************************************************************)
T(s) == [null |-> FALSE, s |-> s]             \* a text cell
NoText == [null |-> TRUE, s |-> <<>>]         \* an empty cell (NaN)
L(s) == [null |-> FALSE, s |-> s]             \* a schedule label
NoLabel == [null |-> TRUE, s |-> ""]
Num(n) == [kind |-> "num", num |-> n, s |-> <<>>]
Txt(s) == [kind |-> "str", num |-> 0, s |-> s]
NoValue == [kind |-> "null", num |-> 0, s |-> <<>>]
Day(z) == [ok |-> TRUE, ord |-> z]
BadDate == [ok |-> FALSE, ord |-> 0]          \* text pd.to_datetime rejects

(***************************************************************************)
(* Data loading and cleaning.                                              *)
(***************************************************************************)
_CD_MAP == [x \in {"Non-controlled Drugs", "Controlled Drugs", "Controlled drugs"} |->
              IF x = "Non-controlled Drugs" THEN "Non-controlled" ELSE "Controlled"]

NaN == "NaN"

\* .map(_CD_MAP) without the fillna
MapCdNoFill(label) ==
    IF ~label.null /\ label.s \in DOMAIN _CD_MAP THEN _CD_MAP[label.s] ELSE NaN

\* df["Controlled Drug Schedule"].map(_CD_MAP).fillna("Unknown")
MapCd(label) ==
    IF ~label.null /\ label.s \in DOMAIN _CD_MAP THEN _CD_MAP[label.s] ELSE "Unknown"

\* df["Submitting User"].fillna("UNATTRIBUTED")
FillUser(cell) ==
    IF cell.null THEN <<"U", "N", "A", "T", "T", "R", "I", "B", "U", "T", "E", "D">>
    ELSE cell.s

\* a decimal integer: an optional sign and digits
IsNumericStr(s) ==
    LET body == IF s # <<>> /\ s[1] = "-" THEN Tail(s) ELSE s
    IN  body # <<>> /\ \A i \in 1..Len(body) : IsDigit(body[i])

RECURSIVE DigitsVal(_)
DigitsVal(s) ==
    IF s = <<>> THEN 0 ELSE 10 * DigitsVal(SubSeq(s, 1, Len(s) - 1)) + DigitVal(s[Len(s)])

ParseInt(s) == IF s[1] = "-" THEN 0 - DigitsVal(Tail(s)) ELSE DigitsVal(s)

\* a coercion that also zeroes amounts below zero
ToNumericClipped(cell) ==
    IF cell.kind = "num" THEN [nan |-> FALSE, num |-> Max(0, cell.num)]
    ELSE IF cell.kind = "str" /\ IsNumericStr(cell.s)
         THEN [nan |-> FALSE, num |-> Max(0, ParseInt(cell.s))]
    ELSE [nan |-> TRUE, num |-> 0]

\* pd.to_numeric(x, errors="coerce")
ToNumeric(cell) ==
    IF cell.kind = "num" THEN [nan |-> FALSE, num |-> cell.num]
    ELSE IF cell.kind = "str" /\ IsNumericStr(cell.s)
         THEN [nan |-> FALSE, num |-> ParseInt(cell.s)]
    ELSE [nan |-> TRUE, num |-> 0]

\* .fillna(0)
FillNa0(x) == IF x.nan THEN 0 ELSE x.num

\* one row of load_data's result (steps 2 to 8)
NormalizeRow(r) ==
    [item_clean |-> _clean_item_name(r.item),
     dest       |-> Strip(r.dest),
     sched      |-> MapCd(r.label),
     date       |-> r.date.ord,
     user       |-> FillUser(r.user),
     value      |-> FillNa0(ToNumeric(r.value)),
     qty        |-> r.qty,
     req        |-> r.req,
     week       |-> WeekOf(r.date.ord),
     month      |-> MonthOf(r.date.ord)]

\* pd.to_datetime(df["Date"]) raises unless every date parses
DatesParse(rows) == \A i \in 1..Len(rows) : rows[i].date.ok

IsNumericCell(cell) ==
    cell.kind = "num" \/ (cell.kind = "str" /\ IsNumericStr(cell.s))

\* a load that drops the rows whose value does not coerce
load_data_dropna(rows) ==
    LET keep(r) == IsNumericCell(r.value)
        kept == SelectSeq(rows, keep)
    IN  [i \in 1..Len(kept) |-> NormalizeRow(kept[i])]

\* load_data on the rows pd.read_excel returned
load_data(rows) == [i \in 1..Len(rows) |-> NormalizeRow(rows[i])]

(***************************************************************************)
(* Series and frame helpers (pandas).                                      *)
(***************************************************************************)
RECURSIVE SeqSum(_)
SeqSum(xs) == IF xs = <<>> THEN 0 ELSE xs[1] + SeqSum(Tail(xs))

\* sorted(S) for a set of integers (dates, week and month periods)
SortedInts(S) ==
    [p \in 1..Cardinality(S) |->
        CHOOSE k \in S : Cardinality({x \in S : x < k}) = p - 1]

\* sorted(S) for a set of str
SortedStrs(S) ==
    [p \in 1..Cardinality(S) |->
        CHOOSE k \in S : Cardinality({x \in S : LexLess(x, k)}) = p - 1]

\* rows[mask]
MaskSelect(rows, mask) ==
    LET keep(i) == mask[i]
        idx == SelectSeq([i \in 1..Len(rows) |-> i], keep)
    IN  [k \in 1..Len(idx) |-> rows[idx[k]]]

\* rows[rows[col].isin(allowed)]
IsIn(rows, col, allowed) ==
    LET keep(r) == r[col] \in allowed IN SelectSeq(rows, keep)

\* rows[col].unique()
Unique(rows, col) == {rows[i][col] : i \in 1..Len(rows)}

\* ["Request Number"].nunique()
NUnique(rows) == Cardinality({rows[i].req : i \in 1..Len(rows)})
SumQuantity(rows) == SeqSum([i \in 1..Len(rows) |-> rows[i].qty])
SumValue(rows) == SeqSum([i \in 1..Len(rows) |-> rows[i].value])

\* the aggregate row of the group g of key k, per query
Agg(q, k, g) ==
    CASE q = "ward_req" -> [key |-> k, metric |-> NUnique(g), cols |-> <<>>]
      [] q = "ward_lines" -> [key |-> k, metric |-> Len(g), cols |-> <<>>]
      [] q = "item_agg" -> [key |-> k, metric |-> SumQuantity(g),
                            cols |-> <<SumValue(g), NUnique(g)>>]
      [] q = "item_value" -> [key |-> k, metric |-> SumValue(g), cols |-> <<>>]
      [] q = "user_df" -> [key |-> k, metric |-> NUnique(g),
                           cols |-> <<Len(g), SumValue(g)>>]
      [] q = "daily_trend" -> [date |-> k, Requests |-> NUnique(g), Value |-> SumValue(g)]

\* the rows of one group, in the frame's order
GroupRows(rows, col, k) == LET keep(r) == r[col] = k IN SelectSeq(rows, keep)

\* groupby(col) on a str column: one row per key, keys ascending (sort=True)
GroupByStr(rows, col, q) ==
    LET keys == SortedStrs(Unique(rows, col))
    IN  [g \in 1..Len(keys) |-> Agg(q, keys[g], GroupRows(rows, col, keys[g]))]

\* groupby(df["Date"].dt.date)
GroupByDate(rows, q) ==
    LET keys == SortedInts(Unique(rows, "date"))
    IN  [g \in 1..Len(keys) |-> Agg(q, keys[g], GroupRows(rows, "date", keys[g]))]

\* The order sort_values leaves equal metrics in.  The default kind is
\* "quicksort", which is not stable: numpy's scalar path keeps short arrays
\* in their order, its vectorised paths do not.  Two outcomes are modelled.
TieOrders == {"kept", "reversed"}

\* a sort that leaves the smallest metric first
SortValuesAsc(tbl, tie) ==
    LET before(i, j) == \/ tbl[i].metric < tbl[j].metric
                        \/ /\ tbl[i].metric = tbl[j].metric
                           /\ IF tie = "kept" THEN i < j ELSE i > j
        rank(i) == Cardinality({j \in 1..Len(tbl) : before(j, i)})
    IN  [p \in 1..Len(tbl) |-> tbl[CHOOSE i \in 1..Len(tbl) : rank(i) = p - 1]]

\* .sort_values(metric, ascending=False)
SortValuesDesc(tbl, tie) ==
    LET before(i, j) == \/ tbl[i].metric > tbl[j].metric
                        \/ /\ tbl[i].metric = tbl[j].metric
                           /\ IF tie = "kept" THEN i < j ELSE i > j
        rank(i) == Cardinality({j \in 1..Len(tbl) : before(j, i)})
    IN  [p \in 1..Len(tbl) |-> tbl[CHOOSE i \in 1..Len(tbl) : rank(i) = p - 1]]

\* a head that stops one row early
DfHeadShort(tbl, n) == SubSeq(tbl, 1, Min(n, Len(tbl)) - 1)

\* .head(n)
DfHead(tbl, n) == SubSeq(tbl, 1, Min(n, Len(tbl)))

(***************************************************************************)
(* Apply filters.                                                          *)
(***************************************************************************)
\* filters that apply isin even to an empty selection
ApplyFiltersAlwaysIsin(frame, mask, dests, scheds) ==
    IsIn(IsIn(MaskSelect(frame, mask), "dest", dests), "sched", scheds)

\* filtered_df = df[time_mask].copy(), then the two optional isin filters
ApplyFiltersTo(frame, mask, dests, scheds) ==
    LET f1 == MaskSelect(frame, mask)
        f2 == IF dests # {} THEN IsIn(f1, "dest", dests) ELSE f1
        f3 == IF scheds # {} THEN IsIn(f2, "sched", scheds) ELSE f2
    IN  f3

(***************************************************************************)
(* Aggregation queries.                                                    *)
(***************************************************************************)
ward_req(rows, tie) == SortValuesDesc(GroupByStr(rows, "dest", "ward_req"), tie)
ward_lines(rows, tie) == SortValuesDesc(GroupByStr(rows, "dest", "ward_lines"), tie)
item_agg(rows, tie) == SortValuesDesc(GroupByStr(rows, "item_clean", "item_agg"), tie)
item_value(rows, tie) == SortValuesDesc(GroupByStr(rows, "item_clean", "item_value"), tie)
user_df(rows, tie) == SortValuesDesc(GroupByStr(rows, "user", "user_df"), tie)

\* a trend computed over the filtered subset
DailyTrendOfSubset(frame, subset) == GroupByDate(subset, "daily_trend")

\* daily_trend: df.groupby(df["Date"].dt.date), always the full dataset
DailyTrendOf(frame, subset) == GroupByDate(frame, "daily_trend")

Queries == {"ward_req", "ward_lines", "item_agg", "item_value", "user_df"}

Ranked(q, rows, tie) ==
    CASE q = "ward_req" -> ward_req(rows, tie)
      [] q = "ward_lines" -> ward_lines(rows, tie)
      [] q = "item_agg" -> item_agg(rows, tie)
      [] q = "item_value" -> item_value(rows, tie)
      [] q = "user_df" -> user_df(rows, tie)

\* What a section shows of its ranked table: the chart of the first top_n
\* rows, and the table beside or under it.  The ward sections and the item
\* breakdown show the full table; the value chart has no table; the user
\* table (ranked_users) shows the first top_n rows again.
Detail(q, full, n) ==
    CASE q \in {"ward_req", "ward_lines", "item_agg"} -> [shown |-> TRUE, rows |-> full]
      [] q = "item_value" -> [shown |-> FALSE, rows |-> <<>>]
      [] q = "user_df" -> [shown |-> TRUE, rows |-> DfHead(full, n)]

Section(q, rows, tie, n) ==
    LET full == Ranked(q, rows, tie)
    IN  [full |-> full, chart |-> DfHead(full, n), detail |-> Detail(q, full, n)]

(***************************************************************************)
(* The input files the model draws from.                                   *)
(***************************************************************************)
D19 == DaysFromCivil(2019, 9, 2)     \* Monday, ISO week 36
DA == DaysFromCivil(2024, 9, 2)      \* Monday, ISO week 36
DB == DaysFromCivil(2024, 9, 3)      \* Tuesday of the same week
DC == DaysFromCivil(2024, 9, 9)      \* Monday of the next week
DD == DaysFromCivil(2024, 10, 1)     \* the next month
\* the days st.date_input is tried on
Calendar == {D19, DA, DB, DC, DD}

Row(item, dest, label, req, user, qty, value, date) ==
    [item |-> item, dest |-> dest, label |-> label, req |-> req, user |-> user,
     qty |-> qty, value |-> value, date |-> date]

Code4 == <<"(", "A", "B", "C", "D", ")">>
Code5 == <<"[", "A", "B", "C", "D", "1", "]">>

\* rows a table of at most MaxRows rows is drawn from
Pool ==
    { Row(<<"a", " ">> \o Code4, <<"A">>, L("Non-controlled Drugs"), 1,
          T(<<"u", "1">>), 2, Num(5), Day(DA)),
      Row(<<"b">>, <<" ", "B", " ">>, L("Controlled Drugs"), 2,
          NoText, 1, Num(-3), Day(DB)),
      Row(<<"a">>, <<"A">>, L("Controlled drugs"), 1,
          T(<<"u", "1">>), 1, Txt(<<"x">>), Day(DC)),
      Row(<<"b", " ", " ", "c">> \o Code5, <<"B">>, L("N/A"), 3,
          T(<<"u", "2">>), 3, NoValue, Day(D19)),
      Row(<<"c">> \o Code4 \o Code4, <<"A", " ">>, NoLabel, 2,
          T(<<"u", "2">>), 2, Txt(<<"1", "2">>), Day(DD)),
      Row(<<"a">>, <<"A">>, L("Controlled Drugs"), 1,
          T(<<"u", "1">>), 1, Num(1), BadDate) }

PoolTables == UNION {[1..n -> Pool] : n \in 1..MaxRows}

\* seven wards, items and users, one row each, over two weeks
Wards == <<"A", "B", "C", "D", "E", "F", "G">>
Items == <<"a", "b", "c", "n", "u", "x", "A">>
Labels == <<L("Non-controlled Drugs"), L("Controlled Drugs"), L(""),
            L("Non-controlled Drugs"), L("Controlled drugs"),
            L("Non-controlled Drugs"), NoLabel>>
Quantities == <<3, 1, 3, 2, 1, 5, 2>>
Values == <<10, 10, 4, -2, 7, 7, 1>>
Dates == <<DA, DA, DB, DA, DC, DA, DB>>
WideRow(i, req) ==
    Row(<<Items[i]>>, <<Wards[i]>>, Labels[i], req, T(<<"u", Items[i]>>),
        Quantities[i], Num(Values[i]), Day(Dates[i]))
Wide == [i \in 1..7 |-> WideRow(i, i)]
Reversed(t) == [i \in 1..Len(t) |-> t[Len(t) + 1 - i]]
WideTables ==
    { Wide, Reversed(Wide), SubSeq(Wide, 1, 6),
      Wide \o [i \in 1..3 |-> WideRow(i, i + 10)],
      Reversed(Wide) \o [i \in 1..4 |-> WideRow(2 * i - 1, 1)] }

InputTables == PoolTables \cup WideTables

\* the files of the session specification
SessionPool == {r \in Pool : r.date.ok /\ r.date.ord \in {DA, DB, DC}}
SessionTables == UNION {[1..n -> SessionPool] : n \in 1..MaxRows}

(***************************************************************************)
(* The run of the script.                                                  *)
(***************************************************************************)
NoWindow == [kind |-> "none", lo |-> 0, hi |-> 0]
NoTable == [shown |-> FALSE, rows |-> <<>>]
NoViews == [rendered |-> FALSE, sections |-> <<>>]
NoPrev == [n |-> 0, mode |-> "none", window |-> NoWindow, rows |-> 0,
           trend |-> NoTable]

schedule_options == {"Non-controlled", "Controlled", "Unknown"}

TopNMin == 5
TopNMax == 50
TopNStep == 5
\* positions of st.slider("Top N results", 5, 50, step=5)
TopNChoices ==
    {n \in TopNMin..Min(TopNMax, MaxTopN) : (n - TopNMin) % TopNStep = 0}

RunStart ==
    /\ pc = "start"
    /\ df = <<>>
    /\ time_mode = "none"
    /\ week_labels = <<>>
    /\ selected_index = 0
    /\ window = NoWindow
    /\ time_mask = <<>>
    /\ selected_destinations = {}
    /\ selected_schedules = {}
    /\ top_n = 0
    /\ filtered_df = <<>>
    /\ views = NoViews
    /\ daily_trend = NoTable
    /\ alert = "none"

NamesIdle ==
    /\ name_raw = <<>> /\ name_once = <<>> /\ name_twice = <<>> /\ name_pc = "idle"

Init ==
    /\ raw \in InputTables
    /\ path_exists \in BOOLEAN
    /\ cache = [hit |-> FALSE, df |-> <<>>]
    /\ reads = 0
    /\ prev = NoPrev
    /\ RunStart
    /\ NamesIdle

\* if not DATA_PATH.exists(): st.error(...); st.stop()
FileGuard ==
    /\ pc = "start"
    /\ IF path_exists
       THEN pc' = "load" /\ alert' = alert
       ELSE pc' = "not_found" /\ alert' = "error"
    /\ UNCHANGED <<path_exists, raw, cache, reads, df, time_mode, week_labels,
                   selected_index, window, time_mask, selected_destinations,
                   selected_schedules, top_n, filtered_df, views, daily_trend,
                   prev, nameVars>>

\* df = load_data(str(DATA_PATH)), behind st.cache_data
LoadData ==
    /\ pc = "load"
    /\ IF cache.hit
       THEN df' = cache.df /\ pc' = "sidebar" /\ UNCHANGED <<cache, reads>>
       ELSE /\ reads' = reads + 1                       \* pd.read_excel
            /\ IF path_exists /\ DatesParse(raw)
               THEN /\ df' = load_data(raw)
                    /\ cache' = [hit |-> TRUE, df |-> load_data(raw)]
                    /\ pc' = "sidebar"
               ELSE /\ pc' = "load_error"               \* the exception ends the run
                    /\ UNCHANGED <<df, cache>>
    /\ UNCHANGED <<path_exists, raw, time_mode, week_labels, selected_index,
                   window, time_mask, selected_destinations, selected_schedules,
                   top_n, filtered_df, views, daily_trend, prev, alert, nameVars>>

min_date == SortedInts(Unique(df, "date"))[1]
max_date == LET ds == SortedInts(Unique(df, "date")) IN ds[Len(ds)]
all_destinations == Unique(df, "dest")

\* d[k] = v on an insertion-ordered dict of <<key, value>> pairs
DictPut(d, k, v) ==
    IF \E i \in 1..Len(d) : d[i][1] = k
    THEN [i \in 1..Len(d) |-> IF d[i][1] = k THEN <<k, v>> ELSE d[i]]
    ELSE Append(d, <<k, v>>)

\* week_labels after the loop over week_periods[1..n]
RECURSIVE WeekLabelsUpTo(_, _)
WeekLabelsUpTo(periods, n) ==
    IF n = 0 THEN <<>>
    ELSE DictPut(WeekLabelsUpTo(periods, n - 1), WeekLabel(periods[n]),
                 <<WeekStart(periods[n]), WeekEnd(periods[n])>>)

RECURSIVE MonthLabelsUpTo(_, _)
MonthLabelsUpTo(periods, n) ==
    IF n = 0 THEN <<>>
    ELSE DictPut(MonthLabelsUpTo(periods, n - 1), MonthLabel(periods[n]), periods[n])

\* the ward, schedule and top-N widgets, which every time frame shares
OtherWidgets ==
    /\ \E dests \in SUBSET all_destinations :
          /\ Cardinality(dests) <= MaxSelected
          /\ selected_destinations' = dests
    /\ selected_schedules' \in SUBSET schedule_options
    /\ top_n' \in TopNChoices
    /\ pc' = "filter"
    /\ UNCHANGED <<path_exists, raw, cache, reads, df, filtered_df, views,
                   daily_trend, prev, alert, nameVars>>

\* time_mode == "Daily"
SidebarDaily ==
    /\ pc = "sidebar"
    /\ time_mode' = "Daily"
    /\ \E selected_date \in {d \in Calendar : min_date <= d /\ d <= max_date} :
          /\ time_mask' = [i \in 1..Len(df) |-> df[i].date = selected_date]
          /\ window' = [kind |-> "date", lo |-> selected_date, hi |-> selected_date]
    /\ week_labels' = <<>>
    /\ selected_index' = 0
    /\ OtherWidgets

\* time_mode == "Weekly"
SidebarWeekly ==
    /\ pc = "sidebar"
    /\ time_mode' = "Weekly"
    /\ LET week_periods == SortedInts(Unique(df, "week"))
           labels == WeekLabelsUpTo(week_periods, Len(week_periods))
       IN  /\ week_labels' = labels
           /\ \E k \in 1..Len(labels) :
                 LET week_start == labels[k][2][1]
                     week_end == labels[k][2][2]
                 IN  /\ selected_index' = k
                     /\ time_mask' = [i \in 1..Len(df) |->
                                        df[i].date >= week_start /\ df[i].date <= week_end]
                     /\ window' = [kind |-> "range", lo |-> week_start, hi |-> week_end]
    /\ OtherWidgets

\* time_mode == "Monthly"
SidebarMonthly ==
    /\ pc = "sidebar"
    /\ time_mode' = "Monthly"
    /\ LET month_periods == SortedInts(Unique(df, "month"))
           labels == MonthLabelsUpTo(month_periods, Len(month_periods))
       IN  \E k \in 1..Len(labels) :
              LET selected_period == labels[k][2]
              IN  /\ selected_index' = k
                  /\ time_mask' = [i \in 1..Len(df) |-> df[i].month = selected_period]
                  /\ window' = [kind |-> "month", lo |-> selected_period,
                                hi |-> selected_period]
    /\ week_labels' = <<>>
    /\ OtherWidgets

\* Apply filters
ApplyFilters ==
    /\ pc = "filter"
    /\ filtered_df' = ApplyFiltersTo(df, time_mask, selected_destinations,
                                     selected_schedules)
    /\ pc' = "guard"
    /\ UNCHANGED <<path_exists, raw, cache, reads, df, time_mode, week_labels,
                   selected_index, window, time_mask, selected_destinations,
                   selected_schedules, top_n, views, daily_trend, prev, alert,
                   nameVars>>

\* a guard that lets an empty subset through
EmptyGuardOff ==
    /\ pc = "guard"
    /\ pc' = "render"
    /\ UNCHANGED <<path_exists, raw, cache, reads, df, time_mode, week_labels,
                   selected_index, window, time_mask, selected_destinations,
                   selected_schedules, top_n, filtered_df, views, daily_trend,
                   prev, alert, nameVars>>

\* if filtered_df.empty: st.warning(...); st.stop()
EmptyGuard ==
    /\ pc = "guard"
    /\ IF filtered_df = <<>>
       THEN pc' = "no_data" /\ alert' = "warning"
       ELSE pc' = "render" /\ alert' = alert
    /\ UNCHANGED <<path_exists, raw, cache, reads, df, time_mode, week_labels,
                   selected_index, window, time_mask, selected_destinations,
                   selected_schedules, top_n, filtered_df, views, daily_trend,
                   prev, nameVars>>

\* sections 1 to 5, from the header to the footer
Render ==
    /\ pc = "render"
    /\ \E tie \in TieOrders :
          views' = [rendered |-> TRUE,
                    sections |-> [q \in Queries |-> Section(q, filtered_df, tie, top_n)]]
    /\ daily_trend' = IF time_mode # "Monthly"
                      THEN [shown |-> TRUE, rows |-> DailyTrendOf(df, filtered_df)]
                      ELSE NoTable
    /\ pc' = "done"
    /\ UNCHANGED <<path_exists, raw, cache, reads, df, time_mode, week_labels,
                   selected_index, window, time_mask, selected_destinations,
                   selected_schedules, top_n, filtered_df, prev, alert, nameVars>>

Next ==
    \/ FileGuard
    \/ LoadData
    \/ SidebarDaily
    \/ SidebarWeekly
    \/ SidebarMonthly
    \/ ApplyFilters
    \/ EmptyGuard
    \/ Render

Spec == Init /\ [][Next]_vars

(***************************************************************************)
(* A session: Streamlit runs the script again when a widget changes.       *)
(* The widgets exist only in a run that reached the sidebar, and           *)
(* load_data answers from its cache.  prev keeps what the claim about two  *)
(* runs compares: the time-window selection, the size of the subset and    *)
(* the daily trend of the run before.                                      *)
(***************************************************************************)
InitSession ==
    /\ raw \in SessionTables
    /\ path_exists \in BOOLEAN
    /\ cache = [hit |-> FALSE, df |-> <<>>]
    /\ reads = 0
    /\ prev = NoPrev
    /\ RunStart
    /\ NamesIdle

Rerun ==
    /\ pc \in {"done", "no_data"}
    /\ prev.n + 1 < MaxRuns
    /\ prev' = [n |-> prev.n + 1, mode |-> time_mode, window |-> window,
                rows |-> Len(filtered_df), trend |-> daily_trend]
    /\ pc' = "start"
    /\ df' = <<>>
    /\ time_mode' = "none"
    /\ week_labels' = <<>>
    /\ selected_index' = 0
    /\ window' = NoWindow
    /\ time_mask' = <<>>
    /\ selected_destinations' = {}
    /\ selected_schedules' = {}
    /\ top_n' = 0
    /\ filtered_df' = <<>>
    /\ views' = NoViews
    /\ daily_trend' = NoTable
    /\ alert' = "none"
    /\ UNCHANGED <<path_exists, raw, cache, reads, nameVars>>

NextSession == Next \/ Rerun

SpecSession == InitSession /\ [][NextSession]_vars

(***************************************************************************)
(* Item-name cleaning on its own: a raw name, cleaned once, cleaned twice. *)
(***************************************************************************)
Pieces ==
    { <<"a">>, <<" ">>, <<" ", " ">>, <<"\t">>, <<"(">>,
      Code4,                                        \* four characters
      <<"{", " ", "1", "2", "7", "A", "B", "]">>,   \* five, brackets unlike
      <<"[", "A", "B", "C", "D", "1", "2", "7", "]">> }  \* seven: no code

RECURSIVE Flatten(_)
Flatten(ps) == IF ps = <<>> THEN <<>> ELSE ps[1] \o Flatten(Tail(ps))

Names == {Flatten(ps) : ps \in UNION {[1..n -> Pieces] : n \in 0..MaxPieces}}

InitClean ==
    /\ name_raw \in Names
    /\ name_once = <<>>
    /\ name_twice = <<>>
    /\ name_pc = "raw"
    /\ raw = <<>>
    /\ path_exists = FALSE
    /\ cache = [hit |-> FALSE, df |-> <<>>]
    /\ reads = 0
    /\ prev = NoPrev
    /\ pc = "idle"
    /\ df = <<>>
    /\ time_mode = "none"
    /\ week_labels = <<>>
    /\ selected_index = 0
    /\ window = NoWindow
    /\ time_mask = <<>>
    /\ selected_destinations = {}
    /\ selected_schedules = {}
    /\ top_n = 0
    /\ filtered_df = <<>>
    /\ views = NoViews
    /\ daily_trend = NoTable
    /\ alert = "none"

CleanOnce ==
    /\ name_pc = "raw"
    /\ name_once' = _clean_item_name(name_raw)
    /\ name_pc' = "once"
    /\ UNCHANGED <<name_raw, name_twice, runVars>>

CleanTwice ==
    /\ name_pc = "once"
    /\ name_twice' = _clean_item_name(name_once)
    /\ name_pc' = "twice"
    /\ UNCHANGED <<name_raw, name_once, runVars>>

NextClean == CleanOnce \/ CleanTwice

SpecClean == InitClean /\ [][NextClean]_vars

(***************************************************************************)
(* Properties.                                                             *)
(***************************************************************************)
Loaded == pc \in {"sidebar", "filter", "guard", "render", "no_data", "done"}
Filtered == pc \in {"guard", "render", "no_data", "done"}

InWindow(r) ==
    CASE window.kind = "date" -> r.date = window.lo
      [] window.kind = "range" -> window.lo <= r.date /\ r.date <= window.hi
      [] window.kind = "month" -> r.month = window.lo
      [] OTHER -> FALSE

Passes(r) ==
    /\ InWindow(r)
    /\ selected_destinations = {} \/ r.dest \in selected_destinations
    /\ selected_schedules = {} \/ r.sched \in selected_schedules

PassesTimeAndSchedule(r) ==
    /\ InWindow(r)
    /\ selected_schedules = {} \/ r.sched \in selected_schedules

\* C1: the filtered subset is exactly the records that satisfy the time
\* window, the destination set (when not empty) and the schedule set (when
\* not empty), in their original order; with no destination selected it is
\* the subset the time window and the schedules give alone.
C1_FilterConjunction ==
    Filtered =>
        /\ filtered_df = SelectSeq(df, Passes)
        /\ selected_destinations = {} =>
              filtered_df = SelectSeq(df, PassesTimeAndSchedule)

C1_Witness ==
    /\ pc = "guard"
    /\ selected_destinations # {}
    /\ selected_schedules # {}
    /\ filtered_df # <<>>
    /\ Len(filtered_df) < Len(SelectSeq(df, InWindow))
    /\ Len(SelectSeq(df, InWindow)) < Len(df)

\* C2: load_data returns one record per raw row, in the same order, and a
\* row whose value is not numeric is there with value 0.
C2_RowCountPreserved ==
    Loaded =>
        /\ Len(df) = Len(raw)
        /\ \A i \in 1..Len(df) :
              /\ df[i].req = raw[i].req
              /\ df[i].qty = raw[i].qty
              /\ df[i].date = raw[i].date.ord
              /\ df[i].dest = Strip(raw[i].dest)
              /\ ~IsNumericCell(raw[i].value) => df[i].value = 0

C2_Witness ==
    /\ Loaded
    /\ Len(raw) >= 2
    /\ Len(df) = Len(raw)
    /\ \E i \in 1..Len(raw) :
          raw[i].value.kind = "str" /\ ~IsNumericStr(raw[i].value.s) /\ df[i].value = 0
    /\ \E i \in 1..Len(raw) : raw[i].value.kind = "num"

\* C3: every normalized record's schedule is Non-controlled, Controlled or
\* Unknown; the three labels of the lookup table give their canonical form
\* and every other label, empty and missing included, gives Unknown.
C3_ScheduleExhaustive ==
    Loaded =>
        \A i \in 1..Min(Len(df), Len(raw)) :
            LET label == raw[i].label
            IN  /\ df[i].sched \in {"Non-controlled", "Controlled", "Unknown"}
                /\ (~label.null /\ label.s = "Non-controlled Drugs")
                      => df[i].sched = "Non-controlled"
                /\ (~label.null /\ label.s \in {"Controlled Drugs", "Controlled drugs"})
                      => df[i].sched = "Controlled"
                /\ (label.null \/ label.s \notin {"Non-controlled Drugs",
                                                  "Controlled Drugs", "Controlled drugs"})
                      => df[i].sched = "Unknown"

C3_Witness ==
    /\ Loaded
    /\ \E i \in 1..Len(df) : raw[i].label.null /\ df[i].sched = "Unknown"
    /\ \E i \in 1..Len(df) :
          ~raw[i].label.null /\ raw[i].label.s = "Controlled drugs"
          /\ df[i].sched = "Controlled"

\* the number of bracketed catalogue codes a name ends in
RECURSIVE TrailingCodes(_)
TrailingCodes(s) == IF SuffixSub(s) # s THEN 1 + TrailingCodes(SuffixSub(s)) ELSE 0

HasSpaceRun(s) == \E i \in 1..(Len(s) - 1) : s[i] = " " /\ s[i + 1] = " "

\* C4 as stated: cleaning twice gives what cleaning once gives, for every
\* raw item name.
C4_Idempotent == name_pc = "twice" => name_twice = name_once

\* C4 as amended: cleaning twice gives what cleaning once gives exactly for
\* the names that end in at most one bracketed catalogue code (runs of
\* spaces included); a name that ends in two or more loses one more code at
\* the second cleaning.
C4_IdempotentUpToOneCode ==
    name_pc = "twice" =>
        /\ TrailingCodes(name_raw) <= 1 => name_twice = name_once
        /\ TrailingCodes(name_raw) >= 2 =>
              /\ name_twice # name_once
              /\ TrailingCodes(name_once) = TrailingCodes(name_raw) - 1
              /\ TrailingCodes(name_twice) = TrailingCodes(name_once) - 1

C4_Witness ==
    /\ name_pc = "twice"
    /\ TrailingCodes(name_raw) = 1
    /\ HasSpaceRun(name_raw)
    /\ name_once # <<>>
    /\ ~HasSpaceRun(name_once)
    /\ name_twice = name_once

Ended == pc \in {"done", "no_data"}

\* C5 as stated: two runs over the same table with the same time-window
\* selection give the same Daily Trend, whatever wards and schedules they
\* select.
C5_TrendIndependent ==
    (Ended /\ prev.n > 0 /\ prev.mode = time_mode /\ prev.window = window)
        => prev.trend = daily_trend

\* C5 as amended: two runs over the same table with the same time-window
\* selection that both pass the empty-result guard give the same Daily
\* Trend, in Daily and Weekly mode one row per calendar day of the full
\* table; a run whose filtered subset is empty stops before the Daily Trend
\* and gives none.
C5_TrendIndependentWhenNotEmpty ==
    /\ (pc = "done" /\ prev.n > 0 /\ prev.rows > 0
            /\ prev.mode = time_mode /\ prev.window = window)
          => prev.trend = daily_trend
    /\ (pc = "done" /\ time_mode # "Monthly")
          => /\ daily_trend.shown
             /\ Len(daily_trend.rows) = Cardinality(Unique(df, "date"))
             /\ \A k \in 1..Len(daily_trend.rows) :
                   LET day == daily_trend.rows[k].date
                   IN  /\ daily_trend.rows[k].Requests =
                             Cardinality({df[i].req : i \in {j \in 1..Len(df) : df[j].date = day}})
                       /\ \A k2 \in 1..(k - 1) : daily_trend.rows[k2].date < day
    /\ pc = "no_data" => ~daily_trend.shown

C5_Witness ==
    /\ pc = "done"
    /\ prev.n > 0
    /\ prev.rows > 0
    /\ prev.rows # Len(filtered_df)
    /\ prev.mode = time_mode
    /\ prev.window = window
    /\ daily_trend.shown
    /\ selected_destinations # {}

KeyCol(q) ==
    CASE q \in {"ward_req", "ward_lines"} -> "dest"
      [] q \in {"item_agg", "item_value"} -> "item_clean"
      [] q = "user_df" -> "user"

Groups(q) == Unique(filtered_df, KeyCol(q))

Descending(tbl) == \A i \in 1..(Len(tbl) - 1) : tbl[i].metric >= tbl[i + 1].metric

FirstRows(tbl, n) == [i \in 1..Min(n, Len(tbl)) |-> tbl[i]]

\* C6 as stated: every ranked query shows the first min(top_n, groups) rows
\* of its table sorted descending, and shows the full table in a secondary
\* view.
C6_TopNAndFullTable ==
    pc = "done" =>
        \A q \in Queries :
            LET sec == views.sections[q]
            IN  /\ Len(sec.chart) = Min(top_n, Cardinality(Groups(q)))
                /\ sec.chart = FirstRows(sec.full, top_n)
                /\ Descending(sec.full)
                /\ sec.detail.shown
                /\ sec.detail.rows = sec.full

\* C6 as amended: every ranked query shows the first min(top_n, groups) rows
\* of its table sorted descending; the full table is shown in a secondary
\* view for wards by requests, wards by lines and the item breakdown only:
\* value per item has no table, and the table of the top submitting users
\* holds the same first top_n rows.
C6_TopNAndFullTableForThree ==
    pc = "done" =>
        \A q \in Queries :
            LET sec == views.sections[q]
            IN  /\ Len(sec.chart) = Min(top_n, Cardinality(Groups(q)))
                /\ sec.chart = FirstRows(sec.full, top_n)
                /\ Descending(sec.full)
                /\ q \in {"ward_req", "ward_lines", "item_agg"}
                      => sec.detail.shown /\ sec.detail.rows = sec.full
                /\ q = "item_value" => ~sec.detail.shown
                /\ q = "user_df"
                      => sec.detail.shown /\ sec.detail.rows = FirstRows(sec.full, top_n)

C6_Witness ==
    /\ pc = "done"
    /\ \A q \in Queries : Len(views.sections[q].full) > top_n
    /\ views.sections["user_df"].detail.rows # views.sections["user_df"].full

\* C7: the source is read only after the path was found to exist, and a
\* missing path ends the run in the error outcome with nothing read; the
\* sections are rendered only after the subset was found not empty, and an
\* empty subset ends the run in the warning outcome with nothing rendered.
C7_GuardsPrecedeWork ==
    /\ reads > 0 => path_exists
    /\ ~path_exists => pc \in {"start", "not_found"}
    /\ pc = "not_found" => ~path_exists /\ reads = 0 /\ df = <<>> /\ alert = "error"
    /\ (pc = "render" \/ views.rendered \/ daily_trend.shown) => filtered_df # <<>>
    /\ pc = "no_data" =>
          /\ filtered_df = <<>>
          /\ ~views.rendered
          /\ ~daily_trend.shown
          /\ alert = "warning"
    /\ alert = "error" => pc = "not_found"

C7_Witness ==
    /\ pc = "no_data"
    /\ path_exists
    /\ reads = 1
    /\ df # <<>>
    /\ selected_destinations # {}

\* C8 as stated: every normalized value is zero or more.
C8_ValueNonNegative == Loaded => \A i \in 1..Len(df) : df[i].value >= 0

\* C8 as amended: every normalized value is a number: a numeric raw value
\* is kept as it is, below zero included, and a raw value that is not
\* numeric or is missing becomes 0.
C8_ValueCoerced ==
    Loaded =>
        \A i \in 1..Min(Len(df), Len(raw)) :
            LET v == raw[i].value
            IN  /\ df[i].value \in Int
                /\ v.kind = "num" => df[i].value = v.num
                /\ v.kind = "null" => df[i].value = 0
                /\ v = Txt(<<"x">>) => df[i].value = 0
                /\ v = Txt(<<"1", "2">>) => df[i].value = 12

C8_Witness ==
    /\ Loaded
    /\ \E i \in 1..Len(df) : raw[i].value.kind = "num" /\ df[i].value < 0
    /\ \E i \in 1..Len(df) : raw[i].value.kind = "str" /\ df[i].value = 0

\* where the first record of a group stands in the filtered subset
FirstPos(q, k) ==
    CHOOSE i \in 1..Len(filtered_df) :
        /\ filtered_df[i][KeyCol(q)] = k
        /\ \A j \in 1..(i - 1) : filtered_df[j][KeyCol(q)] # k

\* C9 as stated: every ranked table is descending by its metric, and of
\* two groups with equal metric the one whose first record comes earlier in
\* the filtered subset is ranked first.
C9_TiesByInputOrder ==
    pc = "done" =>
        \A q \in Queries :
            LET full == views.sections[q].full
            IN  \A i, j \in 1..Len(full) :
                    i < j =>
                        /\ full[i].metric >= full[j].metric
                        /\ full[i].metric = full[j].metric
                              => FirstPos(q, full[i].key) < FirstPos(q, full[j].key)

\* C9 as amended: every ranked table holds one row per group of the
\* filtered subset and is descending by its metric; the order of groups
\* with equal metric is not the subset's input order (groupby orders the
\* groups by key, and the default sort is not stable).
C9_RankedDescending ==
    pc = "done" =>
        \A q \in Queries :
            LET full == views.sections[q].full
            IN  /\ \A i, j \in 1..Len(full) : i < j => full[i].metric >= full[j].metric
                /\ {full[i].key : i \in 1..Len(full)} = Unique(filtered_df, KeyCol(q))
                /\ Len(full) = Cardinality(Unique(filtered_df, KeyCol(q)))

C9_Witness ==
    /\ pc = "done"
    /\ LET full == views.sections["item_agg"].full
       IN  /\ Len(full) >= 4
           /\ \E i \in 1..(Len(full) - 1) : full[i].metric > full[i + 1].metric
           /\ \E i \in 1..(Len(full) - 1) :
                 /\ full[i].metric = full[i + 1].metric
                 /\ FirstPos("item_agg", full[i].key) > FirstPos("item_agg", full[i + 1].key)

\* C10: in Weekly mode there is one option per distinct week of the full
\* table, in ascending order, and the chosen option selects exactly the
\* records of its week.
C10_WeekOptionsExact ==
    (Filtered /\ time_mode = "Weekly") =>
        LET weeks == SortedInts(Unique(df, "week"))
        IN  /\ Len(week_labels) = Len(weeks)
            /\ \A k \in 1..Min(Len(week_labels), Len(weeks)) :
                  week_labels[k][2][1] = WeekStart(weeks[k])
            /\ selected_index <= Len(weeks)
                  => time_mask = [i \in 1..Len(df) |-> df[i].week = weeks[selected_index]]

====
